---- MODULE Spec2Model ----
(***************************************************************************)
(* Connection-management framework (common/connectionhandler.py) run under *)
(* the restart loop of game_server_launcher/main.py, with a protocol-logic *)
(* consumer that answers Disconnected events the way authbot/authbot.py    *)
(* does.  Greenlets are cooperative: every action below is the code that   *)
(* runs between two blocking points of one greenlet.                       *)
(***************************************************************************)
EXTENDS Integers, Sequences, FiniteSets, TLC

\* ---------------------------------------------------------------- bounds
\* Inputs from outside the program in one run: accepted and attempted
\* connections, messages arriving on sockets, remote resets, codec and I/O
\* faults, Peer Handle calls made by the protocol logic, task bodies ending.
MaxEvents == 4

\* Requests carried by one login protocol message.
MaxRequests == 3

\* Login protocol messages the consumer takes off its inbound queue.
MaxMessages == 2

\* -------------------------------------------------------- program values
Tasks   == {"acceptor", "initiator", "consumer"}
ConnIds == 1..MaxEvents
ChanIds == 1..(2 * (MaxEvents + 1))
NoChan  == 0
None    == "None"
RetryTimes == {None, "delay"}

\* what create_connection_instances returns: a triple of the expected types,
\* a triple with a member that is no instance of its base class, or one
\* whose peer is an instance of ClientInstance itself
Shapes == {"ok", "notinstance", "base"}

\* type(request) of the requests a message may carry; AuthBot has no method
\* for the last one
RequestTypes == {"a01bc", "a0197", "unhandled"}

\* the methods of AuthBot decorated with @handles(packet = ...)
handles_packet == [handle_a01bc |-> "a01bc", handle_a0197 |-> "a0197",
                   handle_a003a |-> "a003a", handle_a003d |-> "a003d",
                   handle_chat  |-> "a0070"]

\* PeerConnectedMessage(peer) / PeerDisconnectedMessage(peer) / a decoded
\* payload with msg.peer = peer; n is the payload's arrival number.
PeerConnectedMessage(p)    == [type |-> "Connected",    peer |-> p, n |-> 0]
PeerDisconnectedMessage(p) == [type |-> "Disconnected", peer |-> p, n |-> 0]
PayloadMessage(p, k)       == [type |-> "Payload",      peer |-> p, n |-> k]

\* one outgoing queue object shared by every connection
OutgoingQueueShared(c) == 1

\* the queue made by gevent.queue.Queue() in the _handle call of connection
\* c and given to its peer and its writer: a new object for every call
OutgoingQueue(c) == c

\* every reader tags with the peer of the first connection
ReaderPeerShared(c) == 1

\* reader.peer as _handle sets it: the peer of the same connection
ReaderPeer(c) == c

\* a type test that never recognises the sentinel
IsDisconnectNever(m) == FALSE

\* isinstance(msg, PeerDisconnectedMessage) on an outbound item
IsDisconnect(m) == m.type = "Disconnected"

VARIABLES
  supPc,               \* main(): "start" | "join" | "sleep" | "stopped"
  restart,             \* main.restart
  cycle,               \* number of task sets spawned so far
  killCalls,           \* gevent.killall calls made since the last spawn
  incoming_queue,      \* id of the queue main() created for this cycle
  server_handler_queue,
  nextChan,            \* next unused queue identity
  oldQueues,           \* queue ids created by earlier cycles
  finished_greenlets,  \* result of gevent.joinall(tasks, count=1)
  taskState,           \* task -> "none"|"running"|"returned"|"raised"|"fatal"|"killed"
  firstEnded,          \* first task of the cycle to end, None if none yet
  retry_time,          \* OutgoingConnectionHandler.run(retry_time)
  initPc,              \* initiator: "none"|"start"|"sleep"|"handle"|"ended"
  attempts,            \* sock.connect calls of the current initiator task
  refused,             \* attempts of the current initiator task that were refused
  refusedOpen,         \* sockets of refused attempts that are still open
  chanLog,             \* queue id -> every item ever put on that queue
  inpos,               \* items the consumer has taken from incoming_queue
  nConns,              \* connections established so far
  cKind,               \* conn -> "none" | "in" | "out"
  cCycle,              \* conn -> cycle that established it
  cChan,               \* conn -> reader.incoming_queue
  sock,                \* conn -> "none" | "open" | "closed"
  sockCloses,          \* conn -> number of sock.close() calls
  remoteReset,         \* conn -> the remote end has reset the connection
  rpc,                 \* conn -> Read Flow: "none"|"loop"|"done"|"failed"
  rcvd,                \* conn -> payloads received from the socket
  wpc,                 \* conn -> Write Flow: "none"|"loop"|"done"|"failed"|"killed"
  hpc,                 \* conn -> the greenlet running _handle for it:
                       \*   "none"|"running"|"returned"|"raised"|"killed"
  outLog,              \* conn -> every item ever put on its outgoing_queue
  outPos,              \* conn -> items the Write Flow has taken
  written,             \* conn -> <<[item, ok]>>, one entry per item encoded;
                       \*   ok: "sent" | "reset" (ConnectionResetError) | "error"
  events,              \* inputs from outside taken so far
  interruptedAt,       \* where main() was when KeyboardInterrupt arrived, or None
  shapeFaults,         \* <<[task, cycle, shape]>>: _handle calls whose hook returned a
                       \*   triple of the wrong shape
  requests,            \* msg.requests of the message being dispatched
  dpos,                \* requests the dispatch loop has gone through
  handled,             \* <<[method, request]>>: handler calls made, in order
  dpc,                 \* dispatch: "idle"|"loop"|"done"|"returned"|"raised"
  msgNo                \* login protocol messages handed to the dispatch so far

supVars   == <<supPc, restart, cycle, killCalls, incoming_queue,
               server_handler_queue, nextChan, oldQueues, finished_greenlets>>
taskVars  == <<taskState, firstEnded>>
initVars  == <<retry_time, initPc, attempts, refused, refusedOpen>>
idVars    == <<nConns, cKind, cCycle, cChan>>
sockVars  == <<sock, sockCloses>>
readVars  == <<rpc, rcvd>>
writeVars == <<wpc, hpc, outPos, written>>
connVars  == <<idVars, sockVars, remoteReset, readVars, writeVars, outLog>>
dispVars  == <<requests, dpos, handled, dpc, msgNo>>
vars == <<supVars, taskVars, initVars, chanLog, inpos, connVars, events,
          interruptedAt, shapeFaults, dispVars>>

\* ---------------------------------------------------------------- helpers
RECURSIVE CountType(_, _, _)
CountType(log, ty, p) ==
  IF log = <<>> THEN 0
  ELSE (IF Head(log).type = ty /\ Head(log).peer = p THEN 1 ELSE 0)
       + CountType(Tail(log), ty, p)

\* one more input from outside is taken
Input == events < MaxEvents /\ events' = events + 1

\* main() is about to enter its loop; nothing has run yet
Start ==
  /\ supPc = "start"
  /\ restart = TRUE
  /\ cycle = 0
  /\ killCalls = 0
  /\ incoming_queue = NoChan
  /\ server_handler_queue = NoChan
  /\ nextChan = 1
  /\ oldQueues = {}
  /\ finished_greenlets = {}
  /\ taskState = [t \in Tasks |-> "none"]
  /\ firstEnded = None
  /\ retry_time \in RetryTimes
  /\ initPc = "none"
  /\ attempts = 0
  /\ refused = 0
  /\ refusedOpen = 0
  /\ chanLog = [q \in ChanIds |-> <<>>]
  /\ inpos = 0
  /\ nConns = 0
  /\ cKind = [c \in ConnIds |-> "none"]
  /\ cCycle = [c \in ConnIds |-> 0]
  /\ cChan = [c \in ConnIds |-> NoChan]
  /\ sock = [c \in ConnIds |-> "none"]
  /\ sockCloses = [c \in ConnIds |-> 0]
  /\ remoteReset = [c \in ConnIds |-> FALSE]
  /\ rpc = [c \in ConnIds |-> "none"]
  /\ rcvd = [c \in ConnIds |-> 0]
  /\ wpc = [c \in ConnIds |-> "none"]
  /\ hpc = [c \in ConnIds |-> "none"]
  /\ outLog = [c \in ConnIds |-> <<>>]
  /\ outPos = [c \in ConnIds |-> 0]
  /\ written = [c \in ConnIds |-> <<>>]
  /\ events = 0
  /\ interruptedAt = None
  /\ shapeFaults = <<>>

Init ==
  /\ Start
  /\ requests = <<>>
  /\ dpos = 0
  /\ handled = <<>>
  /\ dpc = "idle"
  /\ msgNo = 0

\* a put that places the item at the head of the queue
PutFirst(log, q, item) == [log EXCEPT ![q] = <<item>> \o @]

\* gevent.queue.Queue.put(item) on queue q of the family log
Put(log, q, item) == [log EXCEPT ![q] = Append(@, item)]

\* a greenlet of the task list ends; joinall(count=1) reports the first one
EndTask(t, how) ==
  /\ taskState' = [taskState EXCEPT ![t] = how]
  /\ firstEnded' = IF firstEnded = None THEN t ELSE firstEnded

\* --------------------------------------------------------------- Supervisor
\* one queue object made before the loop and used again by every cycle
ReusedQueue(prev, fresh) == IF prev = NoChan THEN fresh ELSE prev

\* gevent.queue.Queue(): a queue object nobody else holds
NewQueue(prev, fresh) == fresh

\* gevent.killall(tasks): GreenletExit is thrown into every greenlet of the
\* list at its blocking point.  A Write Flow running inside the initiator's
\* greenlet (writer.run() called by _handle) dies with it, before
\* self.sock.close(); greenlets that are not in the list are not touched.
KillAll ==
  /\ taskState' = [t \in Tasks |->
                     IF taskState[t] = "running" THEN "killed" ELSE taskState[t]]
  /\ wpc' = [c \in ConnIds |->
               IF /\ cKind[c] = "out" /\ cCycle[c] = cycle /\ wpc[c] = "loop"
                  /\ taskState["initiator"] = "running"
               THEN "killed" ELSE wpc[c]]
  /\ hpc' = [c \in ConnIds |->
               IF /\ cKind[c] = "out" /\ cCycle[c] = cycle /\ hpc[c] = "running"
                  /\ taskState["initiator"] = "running"
               THEN "killed" ELSE hpc[c]]
  /\ initPc' = IF taskState["initiator"] = "running" THEN "ended" ELSE initPc
  /\ killCalls' = killCalls + 1

\* while restart: create the queues and spawn the task set
SupStartCycle ==
  /\ supPc \in {"start", "sleep"}
  /\ restart
  /\ cycle' = cycle + 1
  /\ incoming_queue' = NewQueue(incoming_queue, nextChan)
  /\ server_handler_queue' = NewQueue(server_handler_queue, nextChan + 1)
  /\ nextChan' = nextChan + 2
  /\ oldQueues' = oldQueues \cup ({incoming_queue, server_handler_queue} \ {NoChan})
  /\ inpos' = 0
  /\ taskState' = [t \in Tasks |-> "running"]
  /\ firstEnded' = None
  /\ finished_greenlets' = {}
  /\ killCalls' = 0
  /\ initPc' = "start"
  /\ attempts' = 0
  /\ refused' = 0
  /\ supPc' = "join"
  /\ UNCHANGED <<restart, retry_time, refusedOpen, chanLog, connVars, events>>
  /\ UNCHANGED <<interruptedAt, shapeFaults, dispVars>>

\* a classification that recognises no exception as fatal
FatalErrorsNone(finished) == {}

\* isinstance(g.exception, FatalError) for g in finished_greenlets
FatalErrors(finished) == {g \in finished : taskState[g] = "fatal"}

\* joinall returns, the ended greenlets are classified, every task is
\* killed and main() goes to sleep for restart_delay
SupJoinReturn ==
  /\ supPc = "join"
  /\ firstEnded # None
  /\ finished_greenlets' = {firstEnded}
  /\ restart' = IF FatalErrors({firstEnded}) # {} THEN FALSE ELSE restart
  /\ KillAll
  /\ supPc' = "sleep"
  /\ UNCHANGED <<cycle, incoming_queue, server_handler_queue, nextChan, oldQueues,
                 firstEnded, retry_time, attempts, refused, refusedOpen, chanLog, inpos,
                 idVars, sockVars, remoteReset, readVars, outPos, written, outLog, events>>
  /\ UNCHANGED <<interruptedAt, shapeFaults, dispVars>>

\* KeyboardInterrupt without the gevent.killall(tasks) of the except clause
SupInterruptNoKill ==
  /\ supPc \in {"join", "sleep"}
  /\ Input
  /\ interruptedAt' = supPc
  /\ supPc' = "stopped"
  /\ UNCHANGED <<restart, cycle, killCalls, incoming_queue, server_handler_queue,
                 nextChan, oldQueues, finished_greenlets, taskVars, initVars,
                 chanLog, inpos, connVars, shapeFaults, dispVars>>

\* KeyboardInterrupt reaches main() while it is blocked in joinall or in
\* gevent.sleep(restart_delay): the except clause kills the tasks and main()
\* returns
SupInterrupt ==
  /\ supPc \in {"join", "sleep"}
  /\ Input
  /\ interruptedAt' = supPc
  /\ KillAll
  /\ supPc' = "stopped"
  /\ UNCHANGED <<restart, cycle, incoming_queue, server_handler_queue, nextChan,
                 oldQueues, finished_greenlets, firstEnded, retry_time, attempts,
                 refused, refusedOpen, chanLog, inpos, idVars, sockVars,
                 remoteReset, readVars, outPos, written, outLog, shapeFaults,
                 dispVars>>

\* the sleep is over and the loop condition is false: main() returns
SupStop ==
  /\ supPc = "sleep"
  /\ ~restart
  /\ supPc' = "stopped"
  /\ UNCHANGED <<restart, cycle, killCalls, incoming_queue, server_handler_queue,
                 nextChan, oldQueues, finished_greenlets, taskVars, initVars,
                 chanLog, inpos, connVars, events>>
  /\ UNCHANGED <<interruptedAt, shapeFaults, dispVars>>

\* the role-specific body of a task ends: it returns, raises an ordinary
\* exception or raises a FatalError (e.g. LoginFailedError)
TaskEnds(t, how) ==
  /\ taskState[t] = "running"
  /\ Input
  /\ EndTask(t, how)
  /\ UNCHANGED <<supVars, initVars, chanLog, inpos, connVars>>
  /\ UNCHANGED <<interruptedAt, shapeFaults, dispVars>>

\* --------------------------------------------------------------- Read Flow
\* the first statement of ConnectionReader.run
ReaderStart(log, c, q) == Put(log, q, PeerConnectedMessage(ReaderPeer(c)))

\* what ConnectionReader.run publishes when its receive loop is left: the
\* except clause catches ConnectionResetError only, and the put of
\* PeerDisconnectedMessage follows the try statement
ReaderExit(log, c, how) ==
  IF how = "reset"
  THEN Put(log, cChan[c], PeerDisconnectedMessage(ReaderPeer(c))) ELSE log

\* one message is received and decoded, msg.peer = self.peer, put
ReaderReceive(c) ==
  /\ rpc[c] = "loop"
  /\ sock[c] = "open"
  /\ ~remoteReset[c]
  /\ Input
  /\ rcvd' = [rcvd EXCEPT ![c] = @ + 1]
  /\ chanLog' = Put(chanLog, cChan[c], PayloadMessage(ReaderPeer(c), rcvd[c] + 1))
  /\ UNCHANGED <<supVars, taskVars, initVars, inpos, idVars, sockVars, remoteReset,
                 rpc, writeVars, outLog>>
  /\ UNCHANGED <<interruptedAt, shapeFaults, dispVars>>

\* a Read Flow whose error also ends the task of its connection's handler
ReaderRaisePropagates(c, how) ==
  /\ rpc[c] = "loop"
  /\ how = "reset" => (remoteReset[c] \/ sock[c] = "closed")
  /\ IF how = "error" THEN Input ELSE UNCHANGED events
  /\ chanLog' = ReaderExit(chanLog, c, how)
  /\ rpc' = [rpc EXCEPT ![c] = IF how = "reset" THEN "done" ELSE "failed"]
  /\ IF how = "error" /\ taskState[IF cKind[c] = "in" THEN "acceptor" ELSE "initiator"] = "running"
     THEN EndTask(IF cKind[c] = "in" THEN "acceptor" ELSE "initiator", "raised")
     ELSE UNCHANGED taskVars
  /\ UNCHANGED <<supVars, initVars, inpos, idVars, sockVars, remoteReset,
                 rcvd, writeVars, outLog>>
  /\ UNCHANGED <<interruptedAt, shapeFaults, dispVars>>

\* receive() or decode() raises.  "reset": ConnectionResetError, possible
\* once the remote end has reset or the socket was closed under the reader;
\* "error": any other exception (undecodable bytes, oversized message,
\* OSError on a socket closed by the Write Flow)
ReaderRaise(c, how) ==
  /\ rpc[c] = "loop"
  /\ how = "reset" => (remoteReset[c] \/ sock[c] = "closed")
  /\ IF how = "error" THEN Input ELSE UNCHANGED events
  /\ chanLog' = ReaderExit(chanLog, c, how)
  /\ rpc' = [rpc EXCEPT ![c] = IF how = "reset" THEN "done" ELSE "failed"]
  /\ UNCHANGED <<supVars, taskVars, initVars, inpos, idVars, sockVars, remoteReset,
                 rcvd, writeVars, outLog>>
  /\ UNCHANGED <<interruptedAt, shapeFaults, dispVars>>

\* the remote end resets the connection
RemoteReset(c) ==
  /\ sock[c] = "open"
  /\ ~remoteReset[c]
  /\ Input
  /\ remoteReset' = [remoteReset EXCEPT ![c] = TRUE]
  /\ UNCHANGED <<supVars, taskVars, initVars, chanLog, inpos, idVars, sockVars,
                 readVars, writeVars, outLog>>
  /\ UNCHANGED <<interruptedAt, shapeFaults, dispVars>>

\* ------------------------------------------------------ ConnectionHandler
\* type checks that accept every triple
ShapeErrorNone(shape) == FALSE

\* the two checks of _handle that raise TypeError: the isinstance tests and
\* type(peer) is ClientInstance
ShapeError(shape) == shape = "notinstance" \/ shape = "base"

\* the task whose handler runs _handle for a connection of this kind
HandlerTask(kind) == IF kind = "in" THEN "acceptor" ELSE "initiator"

\* _handle(sock, address): the hook's triple is checked; then fresh outgoing
\* queue, wiring, spawn(reader.run), writer.run() in the calling greenlet up
\* to its first outgoing_queue.get(); the spawned reader then runs up to its
\* first receive()
Handle(kind, shape) ==
  LET c == nConns + 1 IN
  /\ shapeFaults' = IF shape = "ok" THEN shapeFaults
                    ELSE Append(shapeFaults, [task |-> HandlerTask(kind),
                                              cycle |-> cycle, shape |-> shape])
  /\ IF ShapeError(shape)
     THEN UNCHANGED <<chanLog, connVars>>
     ELSE /\ nConns' = c
          /\ cKind' = [cKind EXCEPT ![c] = kind]
          /\ cCycle' = [cCycle EXCEPT ![c] = cycle]
          /\ cChan' = [cChan EXCEPT ![c] = incoming_queue]
          /\ sock' = [sock EXCEPT ![c] = "open"]
          /\ outLog' = [outLog EXCEPT ![OutgoingQueue(c)] = <<>>]
          /\ wpc' = [wpc EXCEPT ![c] = "loop"]
          /\ hpc' = [hpc EXCEPT ![c] = "running"]
          /\ rpc' = [rpc EXCEPT ![c] = "loop"]
          /\ chanLog' = ReaderStart(chanLog, c, incoming_queue)
          /\ UNCHANGED <<sockCloses, remoteReset, rcvd, outPos, written>>

\* a server that handles one connection at a time: nothing is accepted
\* while the Write Flow of an accepted connection is running
AcceptSerial(shape) ==
  /\ taskState["acceptor"] = "running"
  /\ \A c \in ConnIds : ~(cKind[c] = "in" /\ wpc[c] = "loop")
  /\ Input
  /\ Handle("in", shape)
  /\ UNCHANGED <<supVars, taskVars, initVars, inpos>>
  /\ UNCHANGED <<interruptedAt, dispVars>>

\* IncomingConnectionHandler: the StreamServer accepts a socket and runs
\* _handle for it in a greenlet of its own; a TypeError raised by _handle
\* ends that greenlet only
Accept(shape) ==
  /\ taskState["acceptor"] = "running"
  /\ Input
  /\ Handle("in", shape)
  /\ UNCHANGED <<supVars, taskVars, initVars, inpos>>
  /\ UNCHANGED <<interruptedAt, dispVars>>

\* the except clause without its sock.close()
RefusedSocketsLeak(n) == n + 1

\* sockets of refused attempts left open after sock.close() in the except
\* clause: the socket created at the top of the loop is closed again
RefusedSockets(n) == n

\* OutgoingConnectionHandler.run: one pass of the while loop, entered at the
\* start of the task or when gevent.sleep(retry_time) returns; a TypeError
\* raised by _handle leaves run() and ends the task
InitiatorAttempt(refuse, shape) ==
  /\ taskState["initiator"] = "running"
  /\ initPc \in {"start", "sleep"}
  /\ refuse => shape = "ok"
  /\ Input
  /\ attempts' = attempts + 1
  /\ IF refuse
     THEN /\ refused' = refused + 1
          /\ refusedOpen' = RefusedSockets(refusedOpen)
          /\ IF retry_time # None
             THEN /\ initPc' = "sleep"
                  /\ UNCHANGED taskVars
             ELSE /\ initPc' = "ended"
                  /\ EndTask("initiator", "returned")
          /\ UNCHANGED <<chanLog, connVars, shapeFaults>>
     ELSE /\ Handle("out", shape)
          /\ IF ShapeError(shape)
             THEN /\ initPc' = "ended"
                  /\ EndTask("initiator", "raised")
             ELSE /\ initPc' = "handle"
                  /\ UNCHANGED taskVars
          /\ UNCHANGED <<refused, refusedOpen>>
  /\ UNCHANGED <<supVars, retry_time, inpos>>
  /\ UNCHANGED <<interruptedAt, dispVars>>

\* -------------------------------------------------------------- Write Flow
\* the Write Flow of c runs in the greenlet of the initiator task
InInitiator(c) == cKind[c] = "out" /\ cCycle[c] = cycle

\* writer.run leaves _handle and OutgoingConnectionHandler.run with it
WriterLeaves(c, how) ==
  /\ hpc' = [hpc EXCEPT ![c] = how]
  /\ IF InInitiator(c)
     THEN /\ EndTask("initiator", how)
          /\ initPc' = "ended"
     ELSE UNCHANGED <<taskVars, initPc>>

\* break without the self.sock.close() that follows the loop
WriterCloseForgets(c) ==
  /\ wpc' = [wpc EXCEPT ![c] = "done"]
  /\ WriterLeaves(c, "returned")
  /\ UNCHANGED <<sockVars, written>>

\* the sentinel was dequeued: break, self.sock.close()
WriterClose(c) ==
  /\ sock' = [sock EXCEPT ![c] = "closed"]
  /\ sockCloses' = [sockCloses EXCEPT ![c] = @ + 1]
  /\ wpc' = [wpc EXCEPT ![c] = "done"]
  /\ WriterLeaves(c, "returned")
  /\ UNCHANGED written

\* encode and send without the except clause: a reset leaves run() too
WriterSendNoCatch(c, item, fails) ==
  LET ok == IF fails THEN "error" ELSE IF remoteReset[c] THEN "reset" ELSE "sent" IN
  /\ written' = [written EXCEPT ![c] = Append(@, [item |-> item, ok |-> ok])]
  /\ IF ok # "sent"
     THEN /\ wpc' = [wpc EXCEPT ![c] = "failed"]
          /\ WriterLeaves(c, "raised")
     ELSE UNCHANGED <<wpc, hpc, taskVars, initPc>>
  /\ UNCHANGED sockVars

\* encode(msg) and send(msg_bytes) of a dequeued item that is no sentinel;
\* ConnectionResetError is swallowed, any other exception leaves run()
WriterSend(c, item, fails) ==
  LET ok == IF fails THEN "error" ELSE IF remoteReset[c] THEN "reset" ELSE "sent" IN
  /\ written' = [written EXCEPT ![c] = Append(@, [item |-> item, ok |-> ok])]
  /\ IF ok = "error"
     THEN /\ wpc' = [wpc EXCEPT ![c] = "failed"]
          /\ WriterLeaves(c, "raised")
     ELSE UNCHANGED <<wpc, hpc, taskVars, initPc>>
  /\ UNCHANGED sockVars

\* one pass of the loop of ConnectionWriter.run
WriterStep(c, fails) ==
  /\ wpc[c] = "loop"
  /\ outPos[c] < Len(outLog[OutgoingQueue(c)])
  /\ IF fails THEN Input ELSE UNCHANGED events
  /\ LET item == outLog[OutgoingQueue(c)][outPos[c] + 1] IN
       /\ outPos' = [outPos EXCEPT ![c] = @ + 1]
       /\ IF IsDisconnect(item)
          THEN ~fails /\ WriterClose(c)
          ELSE WriterSend(c, item, fails)
  /\ UNCHANGED <<supVars, retry_time, attempts, refused, refusedOpen, chanLog,
                 inpos, idVars, remoteReset, readVars, outLog>>
  /\ UNCHANGED <<interruptedAt, shapeFaults, dispVars>>

\* ------------------------------------------- Peer Handle and its consumer
\* ClientInstance.send / ClientInstance.disconnect
Send(log, c, k) ==
  [log EXCEPT ![OutgoingQueue(c)] = Append(@, PayloadMessage(c, k))]
Disconnect(log, c) ==
  [log EXCEPT ![OutgoingQueue(c)] = Append(@, PeerDisconnectedMessage(c))]

\* the peers the consumer of this cycle has been handed in a Connected event
Known(c) ==
  /\ cChan[c] = incoming_queue
  /\ \E i \in 1..inpos : chanLog[incoming_queue][i] = PeerConnectedMessage(c)

\* the protocol logic calls peer.send(msg)
PeerSend(c) ==
  /\ taskState["consumer"] = "running"
  /\ Known(c)
  /\ Input
  /\ outLog' = Send(outLog, c, CountType(outLog[c], "Payload", c) + 1)
  /\ UNCHANGED <<supVars, taskVars, initVars, chanLog, inpos, idVars, sockVars,
                 remoteReset, readVars, writeVars>>
  /\ UNCHANGED <<interruptedAt, shapeFaults, dispVars>>

\* a disconnect() that closes the socket itself
PeerDisconnectCloses(c) ==
  /\ taskState["consumer"] = "running"
  /\ Known(c)
  /\ Input
  /\ outLog' = Disconnect(outLog, c)
  /\ sock' = [sock EXCEPT ![c] = "closed"]
  /\ UNCHANGED <<supVars, taskVars, initVars, chanLog, inpos, idVars, sockCloses,
                 remoteReset, readVars, writeVars>>
  /\ UNCHANGED <<interruptedAt, shapeFaults, dispVars>>

\* the protocol logic calls peer.disconnect()
PeerDisconnect(c) ==
  /\ taskState["consumer"] = "running"
  /\ Known(c)
  /\ Input
  /\ outLog' = Disconnect(outLog, c)
  /\ UNCHANGED <<supVars, taskVars, initVars, chanLog, inpos, idVars, sockVars,
                 remoteReset, readVars, writeVars>>
  /\ UNCHANGED <<interruptedAt, shapeFaults, dispVars>>

\* the consumer takes the next item of its inbound queue and dispatches on
\* its type; a Disconnected event is answered with msg.peer.disconnect()
ConsumerStep ==
  /\ taskState["consumer"] = "running"
  /\ inpos < Len(chanLog[incoming_queue])
  /\ LET message == chanLog[incoming_queue][inpos + 1] IN
       outLog' = IF message.type = "Disconnected"
                 THEN Disconnect(outLog, message.peer) ELSE outLog
  /\ inpos' = inpos + 1
  /\ UNCHANGED <<supVars, taskVars, initVars, chanLog, idVars, sockVars,
                 remoteReset, readVars, writeVars, events>>
  /\ UNCHANGED <<interruptedAt, shapeFaults, dispVars>>

\* ------------------------------------------------------------ specification
Next ==
  \/ SupStartCycle
  \/ SupJoinReturn
  \/ SupStop
  \/ SupInterrupt
  \/ \E how \in {"raised", "fatal"} : TaskEnds("consumer", how)
  \/ TaskEnds("acceptor", "raised")
  \/ \E shape \in Shapes : Accept(shape)
  \/ \E refuse \in BOOLEAN, shape \in Shapes : InitiatorAttempt(refuse, shape)
  \/ \E c \in ConnIds : ReaderReceive(c)
  \/ \E c \in ConnIds, how \in {"reset", "error"} : ReaderRaise(c, how)
  \/ \E c \in ConnIds : RemoteReset(c)
  \/ \E c \in ConnIds, fails \in BOOLEAN : WriterStep(c, fails)
  \/ \E c \in ConnIds : PeerSend(c)
  \/ \E c \in ConnIds : PeerDisconnect(c)
  \/ ConsumerStep

Spec == Init /\ [][Next]_vars

\* the fair scheduling of main(): gevent.sleep(restart_delay) returns
FairSpec == Spec /\ WF_vars(SupStop)

\* ------------------------------------------------ dispatch of one message
\* the methods found by inspect.getmembers for a request
Methods(request) == {f \in DOMAIN handles_packet : handles_packet[f] = request}

\* handle_login_protocol_message is called with a message of any request list
DispatchInit ==
  /\ Start
  /\ retry_time = None
  /\ requests \in UNION {[1..n -> RequestTypes] : n \in 0..MaxRequests}
  /\ dpos = 0
  /\ handled = <<>>
  /\ dpc = "loop"
  /\ msgNo = 1

\* the loop body with "continue" in place of "return" for a request that
\* has no method
DispatchRequestContinue ==
  /\ dpc = "loop"
  /\ IF dpos = Len(requests)
     THEN /\ dpc' = "done"
          /\ UNCHANGED <<dpos, handled>>
     ELSE LET request == requests[dpos + 1]
              methods == {f \in DOMAIN handles_packet : handles_packet[f] = request}
          IN IF methods = {}
             THEN /\ dpos' = dpos + 1
                  /\ UNCHANGED <<dpc, handled>>
             ELSE IF Cardinality(methods) > 1
             THEN /\ dpc' = "raised"
                  /\ UNCHANGED <<dpos, handled>>
             ELSE /\ handled' = Append(handled, [method  |-> CHOOSE f \in methods : TRUE,
                                                 request |-> request])
                  /\ dpos' = dpos + 1
                  /\ UNCHANGED dpc
  /\ UNCHANGED <<requests, msgNo, supVars, taskVars, initVars, chanLog, inpos,
                 connVars, events, interruptedAt, shapeFaults>>

\* one pass of "for request in msg.requests": no method: a warning is
\* logged and the function returns; several methods: ValueError; one
\* method: it is called with the request
DispatchRequest ==
  /\ dpc = "loop"
  /\ IF dpos = Len(requests)
     THEN /\ dpc' = "done"
          /\ UNCHANGED <<dpos, handled>>
     ELSE LET request == requests[dpos + 1]
              methods == Methods(request)
          IN IF methods = {}
             THEN /\ dpc' = "returned"
                  /\ UNCHANGED <<dpos, handled>>
             ELSE IF Cardinality(methods) > 1
             THEN /\ dpc' = "raised"
                  /\ UNCHANGED <<dpos, handled>>
             ELSE /\ handled' = Append(handled, [method  |-> CHOOSE f \in methods : TRUE,
                                                 request |-> request])
                  /\ dpos' = dpos + 1
                  /\ UNCHANGED dpc
  /\ UNCHANGED <<requests, msgNo, supVars, taskVars, initVars, chanLog, inpos,
                 connVars, events, interruptedAt, shapeFaults>>

\* AuthBot.run: the handler has returned without an exception and the loop
\* over the inbound queue hands it the next login protocol message
DispatchNextMessage ==
  /\ dpc \in {"done", "returned"}
  /\ msgNo < MaxMessages
  /\ msgNo' = msgNo + 1
  /\ requests' \in UNION {[1..n -> RequestTypes] : n \in 0..MaxRequests}
  /\ dpos' = 0
  /\ handled' = <<>>
  /\ dpc' = "loop"
  /\ UNCHANGED <<supVars, taskVars, initVars, chanLog, inpos, connVars, events,
                 interruptedAt, shapeFaults>>

DispatchNext ==
  \/ DispatchRequest
  \/ DispatchNextMessage

DispatchSpec == DispatchInit /\ [][DispatchNext]_vars

\* ================================================================== claims
Conns == {c \in ConnIds : cKind[c] # "none"}

\* the inbound queue the Read Flow of c publishes to
Inbound(c) == chanLog[cChan[c]]

\* the outbound items submitted before the first disconnect sentinel
RECURSIVE BeforeSentinel(_)
BeforeSentinel(log) ==
  IF log = <<>> \/ Head(log).type = "Disconnected" THEN <<>>
  ELSE <<Head(log)>> \o BeforeSentinel(Tail(log))

\* the items the Write Flow of c has encoded and passed to send, in order
Passed(c) == [i \in 1..Len(written[c]) |-> written[c][i].item]

IsPrefix(a, b) == Len(a) <= Len(b) /\ \A i \in 1..Len(a) : a[i] = b[i]

\* ------------------------------------------------------------------- C1
\* C1: every connection has exactly one Connected on its inbound queue,
\* placed before all its payloads; once its Read Flow has ended it also has
\* exactly one Disconnected, placed after all its payloads.
C1_LifecycleEvents ==
  \A c \in Conns :
    LET log == Inbound(c)
        IsPayload(i) == log[i].peer = c /\ log[i].type = "Payload"
    IN /\ CountType(log, "Connected", c) = 1
       /\ CountType(log, "Disconnected", c) <= 1
       /\ rpc[c] # "loop" => CountType(log, "Disconnected", c) = 1
       /\ \A i, j \in 1..Len(log) :
            (log[i] = PeerConnectedMessage(c) /\ IsPayload(j)) => i < j
       /\ \A i, j \in 1..Len(log) :
            (IsPayload(i) /\ log[j] = PeerDisconnectedMessage(c)) => i < j

\* ------------------------------------------------------------------- C2
\* C2: a Read Flow that has left its receive loop, by a connection reset or
\* by any other error, has published its Disconnected.
C2_DisconnectedOnEveryExit ==
  \A c \in Conns :
    rpc[c] \in {"done", "failed"} =>
      \E i \in 1..Len(Inbound(c)) : Inbound(c)[i] = PeerDisconnectedMessage(c)

\* ------------------------------------------------------------------- C3
\* C3: the Write Flow passes the submitted items to the socket in submission
\* order and never any item at or after the first sentinel; when it has
\* closed the socket it has passed exactly the items submitted before the
\* sentinel, and a write is lost only to a reset of the remote end.
C3_WritesBeforeDisconnect ==
  \A c \in Conns :
    /\ IsPrefix(Passed(c), BeforeSentinel(outLog[c]))
    /\ wpc[c] = "done" =>
         /\ Passed(c) = BeforeSentinel(outLog[c])
         /\ sock[c] = "closed"
         /\ \A i \in 1..Len(written[c]) :
              /\ written[c][i].ok \in {"sent", "reset"}
              /\ written[c][i].ok = "reset" => remoteReset[c]

\* a connection closed after one message was written, with a further item
\* submitted after the sentinel
C3_Witness ==
  \E c \in Conns :
    /\ wpc[c] = "done"
    /\ Len(written[c]) >= 1
    /\ \A i \in 1..Len(written[c]) : written[c][i].ok = "sent"
    /\ Len(outLog[c]) > outPos[c]
    /\ outLog[c][Len(outLog[c])].type = "Payload"

\* ------------------------------------------------------------------- C4
\* C4: no sentinel is ever encoded or written; a socket is closed at most
\* once, and it is closed exactly once as soon as the Write Flow has left
\* its loop on a sentinel, however many sentinels were enqueued.
C4_SentinelClosesOnce ==
  \A c \in Conns :
    /\ \A i \in 1..Len(written[c]) : written[c][i].item.type # "Disconnected"
    /\ sockCloses[c] <= 1
    /\ wpc[c] = "done" <=> sockCloses[c] = 1
    /\ sock[c] = "closed" <=> sockCloses[c] = 1
    /\ wpc[c] = "done" => outLog[c][outPos[c]].type = "Disconnected"

\* the Write Flow has closed the socket after two disconnect() calls in a
\* row, one of them still on the outbound queue
C4_Witness ==
  \E c \in Conns :
    /\ wpc[c] = "done"
    /\ sockCloses[c] = 1
    /\ CountType(outLog[c], "Disconnected", c) >= 2
    /\ outPos[c] < Len(outLog[c])

\* ------------------------------------------------------------------- C5
\* C5: a write that meets a reset of the remote end never makes the Write
\* Flow raise: the flow fails only on another error, stays in its loop until
\* it dequeues a sentinel and then closes the socket; the Read Flow that
\* sees the reset publishes one Disconnected, and no second one appears.
C5_ResetMidWrite ==
  \A c \in Conns :
    LET W == written[c]
        Taken == [i \in 1..outPos[c] |-> outLog[c][i]]
    IN /\ wpc[c] = "failed" => W[Len(W)].ok = "error"
       /\ \A i \in 1..Len(W) : W[i].ok = "error" => (i = Len(W) /\ wpc[c] = "failed")
       /\ wpc[c] = "loop" => CountType(Taken, "Disconnected", c) = 0
       /\ wpc[c] = "done" => (Taken[outPos[c]].type = "Disconnected" /\ sock[c] = "closed")
       /\ CountType(Inbound(c), "Disconnected", c) <= 1
       /\ rpc[c] = "done" => CountType(Inbound(c), "Disconnected", c) = 1

\* a write met the reset, a later write was attempted too, the sentinel
\* closed the socket and the Read Flow published its one Disconnected
C5_Witness ==
  \E c \in Conns :
    /\ \E i \in 1..Len(written[c]) : written[c][i].ok = "reset"
    /\ wpc[c] = "done"
    /\ sock[c] = "closed"
    /\ rpc[c] = "done"
    /\ CountType(Inbound(c), "Disconnected", c) = 1

\* ------------------------------------------------------------------- C6
\* joinall reported a greenlet that ended with a FatalError
FatalSeen == \E g \in finished_greenlets : taskState[g] = "fatal"

\* C6: once the Supervisor has been handed a task that ended with a fatal
\* error, restart is off, every task of the cycle is dead after exactly one
\* killall, no further task set is ever spawned, and the Supervisor reaches
\* STOPPED.
C6_FatalStops ==
  /\ [](FatalSeen =>
          /\ ~restart
          /\ supPc \in {"sleep", "stopped"}
          /\ interruptedAt = None => killCalls = 1
          /\ \A t \in Tasks : taskState[t] \notin {"none", "running"})
  /\ [][~restart => (cycle' = cycle /\ ~restart' /\ taskState' = taskState)]_vars
  /\ (FatalSeen ~> supPc = "stopped")

\* STOPPED after a fatal error, with another task of the cycle killed
C6_Witness ==
  /\ supPc = "stopped"
  /\ FatalSeen
  /\ \E t \in Tasks : taskState[t] = "killed"

\* ------------------------------------------------------------------- C7
\* C7: when the task joinall reported ended non-fatally, restart stays on;
\* the Supervisor sleeps only after one killall has left no task running,
\* and a task set is spawned only out of that sleep, on queues that are
\* empty and were used by no earlier cycle.
C7_RestartFresh ==
  /\ []((finished_greenlets # {} /\ ~FatalSeen) => restart)
  /\ [](supPc = "sleep" =>
          (killCalls = 1 /\ \A t \in Tasks : taskState[t] \notin {"none", "running"}))
  /\ [][cycle' # cycle =>
          /\ cycle' = cycle + 1
          /\ cycle > 0 => (supPc = "sleep" /\ restart /\ ~FatalSeen)
          /\ supPc' = "join"
          /\ \A t \in Tasks : taskState'[t] = "running"
          /\ chanLog'[incoming_queue'] = <<>>
          /\ chanLog'[server_handler_queue'] = <<>>
          /\ incoming_queue' # server_handler_queue'
          /\ {incoming_queue', server_handler_queue'} \cap oldQueues' = {}
          /\ inpos' = 0]_vars

\* a second cycle is running on an empty queue while the first cycle's
\* queue still holds what was published on it
C7_Witness ==
  /\ cycle = 2
  /\ supPc = "join"
  /\ chanLog[incoming_queue] = <<>>
  /\ \E q \in oldQueues : chanLog[q] # <<>>

\* ------------------------------------------------------------------- C8
\* the initiator of this cycle has established a connection
Dialed == \E c \in Conns : cKind[c] = "out" /\ cCycle[c] = cycle

\* C8: while every dial of the initiator was refused it has started no
\* flow and left no refused socket open; with a retry delay it never ends
\* by itself and sleeps before every further attempt; without one it has
\* returned, with no error, after exactly one attempt.
C8_RefusedDial ==
  /\ []((taskState["initiator"] # "none" /\ refused = attempts) =>
          /\ ~Dialed
          /\ refusedOpen = 0
          /\ retry_time # None =>
               /\ taskState["initiator"] \in {"running", "killed"}
               /\ taskState["initiator"] = "running" =>
                    initPc = (IF attempts = 0 THEN "start" ELSE "sleep")
          /\ (retry_time = None /\ attempts > 0) =>
               /\ attempts = 1
               /\ initPc = "ended"
               /\ taskState["initiator"] = "returned")
  /\ [][(attempts' = attempts + 1 /\ attempts > 0) =>
          (initPc = "sleep" /\ retry_time # None)]_vars

\* three refused attempts in retry mode, the initiator asleep again
C8_Witness ==
  /\ retry_time # None
  /\ attempts = 3
  /\ refused = 3
  /\ initPc = "sleep"
  /\ taskState["initiator"] = "running"

\* ------------------------------------------------------------------- C9
\* C9: a Write Flow that the Supervisor's kill ended at its blocking point
\* has closed the socket of its connection: the socket is not left open.
C9_KilledFlowCleansUp ==
  \A c \in Conns : wpc[c] = "killed" => sock[c] = "closed"

\* ------------------------------------------------------------------ C10
\* C10: once a later cycle has started, no flow of a connection established
\* in an earlier cycle is still running or holds an open socket.
C10_NoFlowSurvivesRestart ==
  \A c \in Conns :
    cCycle[c] < cycle =>
      /\ rpc[c] # "loop"
      /\ wpc[c] # "loop"
      /\ sock[c] # "open"

\* ------------------------------------------------------------------ C11
\* C11: while the Supervisor waits in joinall, a Read Flow of the current
\* cycle that ended with an error other than a connection reset has been
\* reported to it: joinall has an ended greenlet to return and classify.
C11_TerminationObserved ==
  \A c \in Conns :
    (rpc[c] = "failed" /\ cCycle[c] = cycle /\ supPc = "join") => firstEnded # None

\* ------------------------------------------------------------------ C12
\* C12: a KeyboardInterrupt taken while main() waits in joinall or in the
\* restart delay leaves no task of the cycle running and main() in STOPPED;
\* from then on no task set is spawned and no task changes state.
C12_InterruptStops ==
  /\ [](interruptedAt # None =>
          /\ supPc = "stopped"
          /\ \A t \in Tasks : taskState[t] \notin {"none", "running"})
  /\ [][interruptedAt = None /\ interruptedAt' # None =>
          (supPc \in {"join", "sleep"} /\ interruptedAt' = supPc /\ cycle' = cycle)]_vars
  /\ [][interruptedAt # None =>
          (cycle' = cycle /\ taskState' = taskState /\ supPc' = supPc)]_vars

\* interrupted in the join of a second cycle with all three tasks killed
\* by the except clause, restart still on
C12_Witness ==
  /\ interruptedAt = "join"
  /\ cycle = 2
  /\ restart
  /\ supPc = "stopped"
  /\ \A t \in Tasks : taskState[t] = "killed"

\* ------------------------------------------------------------------ C13
\* C13: a step that enqueues on an outbound queue leaves every socket as it
\* was; a socket becomes closed only in a step of its own connection's
\* Write Flow, the one that takes a disconnect sentinel off the outbound
\* queue and leaves the loop; the Read Flow does not move in that step.
C13_OnlyWriterCloses ==
  /\ [][\A c \in ConnIds :
          /\ outLog'[c] # outLog[c] => (sock' = sock /\ sockCloses' = sockCloses)
          /\ (sock'[c] # sock[c] /\ sock'[c] = "closed") =>
               /\ wpc[c] = "loop"
               /\ wpc'[c] = "done"
               /\ outPos'[c] = outPos[c] + 1
               /\ outLog[c][outPos'[c]].type = "Disconnected"
               /\ rpc'[c] = rpc[c]
               /\ inpos' = inpos]_vars
  /\ [](\A c \in Conns : sock[c] = "closed" => wpc[c] = "done")

\* the Read Flow has ended on a reset and the consumer has answered with
\* disconnect(): the sentinel waits on the outbound queue, the socket is
\* still open
C13_Witness ==
  \E c \in Conns :
    /\ rpc[c] = "done"
    /\ outPos[c] < Len(outLog[c])
    /\ outLog[c][outPos[c] + 1].type = "Disconnected"
    /\ wpc[c] = "loop"
    /\ sock[c] = "open"

\* ------------------------------------------------------------------ C14
\* the items of connection c on a queue, in queue order
RECURSIVE OfPeer(_, _)
OfPeer(log, c) ==
  IF log = <<>> THEN <<>>
  ELSE (IF Head(log).peer = c THEN <<Head(log)>> ELSE <<>>) \o OfPeer(Tail(log), c)

\* the payloads among a sequence of items
RECURSIVE Payloads(_)
Payloads(log) ==
  IF log = <<>> THEN <<>>
  ELSE (IF Head(log).type = "Payload" THEN <<Head(log)>> ELSE <<>>) \o Payloads(Tail(log))

\* C14: on the inbound queue a connection publishes to, the payloads of
\* that connection are exactly the messages received on its socket, each
\* once and in arrival order, whatever other connections have published in
\* between.
C14_PerConnectionOrder ==
  \A c \in Conns :
    Payloads(OfPeer(Inbound(c), c)) = [k \in 1..rcvd[c] |-> PayloadMessage(c, k)]

\* an item of another connection lies between the first and the second
\* message of a connection on their common inbound queue
C14_Witness ==
  \E c, d \in Conns :
    /\ c # d
    /\ cChan[c] = cChan[d]
    /\ \E i, j, k \in 1..Len(Inbound(c)) :
         /\ i < j /\ j < k
         /\ Inbound(c)[i] = PayloadMessage(c, 1)
         /\ Inbound(c)[j].peer = d
         /\ Inbound(c)[k] = PayloadMessage(c, 2)

\* ------------------------------------------------------------------ C15
\* C15: when the hook of a handler of the current cycle has returned a
\* triple of the wrong shape, that handler's task has ended with a fatal
\* error, and once the Supervisor has classified the cycle's ending it does
\* not restart.
C15_WrongShapeIsFatal ==
  \A i \in 1..Len(shapeFaults) :
    shapeFaults[i].cycle = cycle =>
      /\ taskState[shapeFaults[i].task] = "fatal"
      /\ supPc \in {"sleep", "stopped"} => ~restart

\* ------------------------------------------------------------------ C16
\* C16: the step in which _handle meets a wrong-shape triple creates no
\* outbound queue, starts no flow, touches no socket and publishes nothing
\* on any inbound queue; no call of _handle yields both a TypeError and a
\* connection.
C16_WrongShapeBeforeAnything ==
  /\ [][Len(shapeFaults') > Len(shapeFaults) =>
          (chanLog' = chanLog /\ connVars' = connVars)]_vars
  /\ [](Len(shapeFaults) + nConns <= events)

\* a handler has met both kinds of wrong shape, one in the acceptor and one
\* in the initiator, and no connection exists
C16_Witness ==
  /\ \E i, j \in 1..Len(shapeFaults) :
       /\ shapeFaults[i].shape = "notinstance"
       /\ shapeFaults[j].shape = "base"
       /\ shapeFaults[i].task # shapeFaults[j].task
  /\ nConns = 0
  /\ \A q \in ChanIds : chanLog[q] = <<>>

\* ------------------------------------------------------------------ C17
\* C17: a Write Flow that has left run(), by returning or by raising, has
\* taken a disconnect sentinel off its outbound queue as its last item and
\* has closed the socket.
C17_WriterEndsOnSentinelOnly ==
  \A c \in Conns :
    wpc[c] \in {"done", "failed"} =>
      /\ outPos[c] >= 1
      /\ outLog[c][outPos[c]].type = "Disconnected"
      /\ sock[c] = "closed"

\* ------------------------------------------------------------------ C18
\* C18: the greenlet that runs _handle for a connection is running exactly
\* as long as that connection's Write Flow is, so it never ends before the
\* Write Flow has; the Read Flow runs on independently of both; and while
\* the acceptor task runs, a further connection can be accepted whatever
\* the Write Flows of the existing connections are doing.
C18_WriterInAcceptingTask ==
  /\ \A c \in Conns : hpc[c] = "running" <=> wpc[c] = "loop"
  /\ (taskState["acceptor"] = "running" /\ events < MaxEvents) => ENABLED Accept("ok")

\* the Write Flow of the first accepted connection is blocked on its empty
\* outbound queue; a connection accepted later has been served to its end
\* and its Read Flow and Write Flow have finished
C18_Witness ==
  \E c, d \in Conns :
    /\ c < d
    /\ cKind[c] = "in" /\ cKind[d] = "in"
    /\ wpc[c] = "loop" /\ hpc[c] = "running" /\ outPos[c] = Len(outLog[c])
    /\ rpc[d] = "done" /\ wpc[d] = "done" /\ hpc[d] = "returned"

\* ------------------------------------------------------------------ C19
\* C19: the step in which the Read Flow of one connection ends on a decode
\* or I/O error changes no flow, socket or outbound queue of any other
\* connection, publishes nothing, and ends no task; and whenever a message
\* arrives on a connection, failed connections or not, it is delivered to
\* that connection's inbound queue.
C19_DecodeFaultIsLocal ==
  /\ [][\A c \in ConnIds :
          (rpc[c] = "loop" /\ rpc'[c] = "failed") =>
            /\ \A d \in ConnIds \ {c} :
                 /\ rpc'[d] = rpc[d]
                 /\ wpc'[d] = wpc[d]
                 /\ hpc'[d] = hpc[d]
                 /\ sock'[d] = sock[d]
                 /\ outLog'[d] = outLog[d]
            /\ chanLog' = chanLog
            /\ taskState' = taskState
            /\ supPc' = supPc]_vars
  /\ [][\A d \in ConnIds :
          rcvd'[d] # rcvd[d] =>
            chanLog'[cChan[d]] =
              Append(chanLog[cChan[d]], PayloadMessage(d, rcvd[d] + 1))]_vars

\* the Read Flow of one connection has failed; another connection is open,
\* has both flows running, and has delivered a message
C19_Witness ==
  \E c, d \in Conns :
    /\ c # d
    /\ rpc[c] = "failed"
    /\ rpc[d] = "loop" /\ wpc[d] = "loop" /\ sock[d] = "open"
    /\ rcvd[d] >= 1
    /\ CountType(Inbound(d), "Disconnected", d) = 0
    /\ \A t \in Tasks : taskState[t] = "running"

\* ------------------------------------------------------------------ C20
\* C20: when the dispatch of a message has ended without raising an error,
\* every request of the message has been handed to exactly one handler, in
\* order; a request without a handler makes the dispatch raise.
C20_ExactlyOneHandler ==
  /\ dpc \in {"done", "returned"} =>
       /\ Len(handled) = Len(requests)
       /\ \A i \in 1..Len(requests) :
            /\ handled[i].request = requests[i]
            /\ Methods(requests[i]) = {handled[i].method}
  /\ (\E i \in 1..Len(requests) : Methods(requests[i]) = {}) =>
       dpc \in {"loop", "raised"}

\* ------------------------------------------------------------------ C21
\* C21: distinct connections have distinct outbound queues; every item the
\* Write Flow of a connection has passed to its socket was submitted
\* through that connection's own Peer Handle; a socket is closed only on a
\* sentinel its own Peer Handle enqueued; and a step that puts on one
\* outbound queue changes no other outbound queue and no other socket.
C21_OwnOutboundQueue ==
  /\ [](\A c, d \in Conns : c # d => OutgoingQueue(c) # OutgoingQueue(d))
  /\ [](\A c \in Conns :
          /\ \A i \in 1..Len(written[c]) : written[c][i].item.peer = c
          /\ sock[c] = "closed" =>
               outLog[OutgoingQueue(c)][outPos[c]] = PeerDisconnectedMessage(c))
  /\ [][\A c \in ConnIds :
          (Len(outLog'[c]) > Len(outLog[c])) =>
            /\ \A d \in ConnIds \ {c} : outLog'[d] = outLog[d]
            /\ sock' = sock
            /\ written' = written]_vars

\* two connections are up; a message sent through the first one's Peer
\* Handle was written and its disconnect() has closed its socket, while the
\* second has written nothing and its socket is open
C21_Witness ==
  \E c, d \in Conns :
    /\ c # d
    /\ Len(written[c]) >= 1
    /\ sock[c] = "closed"
    /\ wpc[d] = "loop"
    /\ written[d] = <<>>
    /\ outLog[OutgoingQueue(d)] = <<>>
    /\ sock[d] = "open"

\* ------------------------------------------------------------------ C22
\* C22: every item on an inbound queue is tagged with a connection that
\* publishes to that queue, and for every connection the items tagged with
\* it are exactly what its own Read Flow has published: its one Connected,
\* one payload for each message received on its socket, and at most one
\* Disconnected; the queue holds nothing else.
C22_TaggedWithOwnPeer ==
  \A q \in ChanIds :
    LET log   == chanLog[q]
        Pubs  == {c \in Conns : cChan[c] = q}
    IN /\ \A i \in 1..Len(log) : log[i].peer \in Pubs
       /\ \A c \in Pubs :
            /\ CountType(log, "Connected", c) = 1
            /\ CountType(log, "Payload", c) = rcvd[c]
            /\ CountType(log, "Disconnected", c) = (IF rpc[c] = "done" THEN 1 ELSE 0)
       /\ \A i \in 1..Len(log) :
            log[i].type = "Payload" => log[i].n \in 1..rcvd[log[i].peer]

\* two connections share an inbound queue; the second one's message was
\* published before the first one's, and each carries its own connection
C22_Witness ==
  \E c, d \in Conns :
    /\ c < d
    /\ cChan[c] = cChan[d]
    /\ \E i, j \in 1..Len(Inbound(c)) :
         /\ i < j
         /\ Inbound(c)[i] = PayloadMessage(d, 1)
         /\ Inbound(c)[j] = PayloadMessage(c, 1)
    /\ rcvd[c] = 1 /\ rcvd[d] = 1

\* ------------------------------------------------------------------ C23
\* disconnect() has been called on the Peer Handle of c
DisconnectCalled(c) == CountType(outLog[OutgoingQueue(c)], "Disconnected", c) > 0

\* C23: as long as disconnect() was never called on a connection's Peer
\* Handle its Write Flow has not left run() and its socket is not closed;
\* and once disconnect() was called the Write Flow is on its way to the
\* sentinel or has taken it: if it has left run() it has closed the socket.
C23_TeardownHandshake ==
  \A c \in Conns :
    /\ ~DisconnectCalled(c) => (wpc[c] \in {"loop", "killed"} /\ sock[c] # "closed")
    /\ (DisconnectCalled(c) /\ wpc[c] \notin {"loop", "killed"}) =>
         (wpc[c] = "done" /\ sock[c] = "closed")

\* ------------------------------------------------------------------ C24
\* C24: when the Supervisor has classified the ending of a cycle, restart
\* is off if some task had ended with a fatal error by the time it woke,
\* and on if none had; tasks that were still running then were killed and
\* count for nothing.
C24_ClassifiesEndedTasks ==
  (supPc = "sleep" /\ interruptedAt = None) =>
    /\ (\E t \in Tasks : taskState[t] = "fatal") => ~restart
    /\ (\A t \in Tasks : taskState[t] # "fatal") => restart

\* ------------------------------------------------------------------ C25
\* C25: the requests of a message are handed to their handlers one by one
\* in order; the dispatch returns early exactly at a request without a
\* handler, having dispatched the requests before it and none after it,
\* and raises nothing for it; after such a return the next thing that
\* happens is the dispatch of the next message.
C25_UnhandledRequestReturns ==
  /\ [](/\ dpos <= Len(requests)
        /\ Len(handled) = dpos
        /\ \A i \in 1..dpos :
             /\ handled[i].request = requests[i]
             /\ Methods(requests[i]) = {handled[i].method})
  /\ [](dpc = "returned" => (dpos < Len(requests) /\ Methods(requests[dpos + 1]) = {}))
  /\ [](dpc = "done" => dpos = Len(requests))
  /\ [](dpc = "raised" => Cardinality(Methods(requests[dpos + 1])) > 1)
  /\ [][dpc = "returned" =>
          (dpc' = "loop" /\ msgNo' = msgNo + 1 /\ dpos' = 0 /\ handled' = <<>>)]_vars

\* the second message of the run has three requests; the first was
\* dispatched, the second has no handler and ended the dispatch, the third
\* has a handler and was not dispatched
C25_Witness ==
  /\ msgNo = 2
  /\ dpc = "returned"
  /\ Len(requests) = 3
  /\ dpos = 1
  /\ Len(handled) = 1
  /\ Methods(requests[3]) # {}

====
